---------------------------- MODULE Spec2Model ----------------------------
(***************************************************************************)
(* A model of the Filter class of src/src/index.js: a set of form controls *)
(* kept in step with the query string of the page address.                 *)
(*                                                                         *)
(* A string is a sequence of one-character strings, so that split(' '),    *)
(* join(' '), the array-to-string conversion of a template literal and the *)
(* form encoding of a query string are computed, not assumed.              *)
(***************************************************************************)
EXTENDS Integers, Sequences, FiniteSets, TLC

VARIABLES
    page,        \* the host document: kind of the second control, default states
    sel,         \* checked / selected state of the four control slots
    location,    \* window.location: [path, query], query in its encoded form
    history,     \* the session history: a sequence of addresses
    hidx,        \* index of the current entry of history
    url,         \* this.url
    urlFilters,  \* this.urlFilters: a sequence of [k, v] pairs
    listening,   \* TRUE once _eventListeners has run
    last,        \* the operation that ran last and how it ended
    steps,       \* the number of operations run so far
    pending,     \* round trip only: the changed controls still to report, and
                 \* those that have reported, in order
    peer         \* two instances only: url, urlFilters and checkbox state of
                 \* a second Filter bound to the container of "ext"

vars == <<page, sel, location, history, hidx, url, urlFilters, listening, last,
          steps, pending, peer>>

---------------------------------------------------------------------------
(* Bounds of the model. *)

\* the number of operations (calls of the public methods, change events,
\* history traversals) a run is followed for
MaxSteps == 4

---------------------------------------------------------------------------
(* Strings. *)

SP == " "
CM == ","
\* the null of URLSearchParams.get and of querySelector
NULL == <<"<null>">>

PrefixLen(s) ==
    IF \A i \in 1..Len(s) : s[i] # SP THEN Len(s)
    ELSE (CHOOSE i \in 1..Len(s) : s[i] = SP /\ \A j \in 1..(i-1) : s[j] # SP) - 1

\* String.prototype.split(' ')
RECURSIVE Split(_)
Split(s) ==
    IF PrefixLen(s) = Len(s) THEN <<s>>
    ELSE <<SubSeq(s, 1, PrefixLen(s))>> \o Split(SubSeq(s, PrefixLen(s) + 2, Len(s)))

\* Array.prototype.join(sep)
RECURSIVE Join(_, _)
Join(toks, sep) ==
    IF toks = <<>> THEN <<>>
    ELSE IF Len(toks) = 1 THEN toks[1]
    ELSE toks[1] \o <<sep>> \o Join(Tail(toks), sep)

\* Array.prototype.indexOf, 1-based; 0 when absent (JavaScript's -1)
IndexOf(toks, v) ==
    IF \E i \in 1..Len(toks) : toks[i] = v
    THEN CHOOSE i \in 1..Len(toks) : toks[i] = v /\ \A j \in 1..(i-1) : toks[j] # v
    ELSE 0

RemoveAt(toks, i) == SubSeq(toks, 1, i - 1) \o SubSeq(toks, i + 1, Len(toks))

\* Array.prototype.splice(start, 1) with start = indexOf(..): a start of -1
\* counts from the end, so the last element goes
Splice1(toks, i) ==
    IF toks = <<>> THEN toks
    ELSE IF i = 0 THEN RemoveAt(toks, Len(toks))
    ELSE RemoveAt(toks, i)

\* `${x}` of a string or null
TemplateStr(x) == IF x = NULL THEN <<"n", "u", "l", "l">> ELSE x

---------------------------------------------------------------------------
(* URLSearchParams: an ordered list of [k, v] pairs. *)

RECURSIVE SelectPairs(_, _)
SelectPairs(p, k) ==
    IF p = <<>> THEN <<>>
    ELSE IF p[1].k = k THEN <<p[1]>> \o SelectPairs(Tail(p), k)
    ELSE SelectPairs(Tail(p), k)

ParamsHas(p, k) == \E i \in 1..Len(p) : p[i].k = k

ParamsGet(p, k) == IF ParamsHas(p, k) THEN SelectPairs(p, k)[1].v ELSE NULL

RECURSIVE ParamsDelete(_, _)
ParamsDelete(p, k) ==
    IF p = <<>> THEN <<>>
    ELSE IF p[1].k = k THEN ParamsDelete(Tail(p), k)
    ELSE <<p[1]>> \o ParamsDelete(Tail(p), k)

ParamsAppend(p, k, v) == Append(p, [k |-> k, v |-> v])

\* set: the first pair named k takes the value, the other pairs named k go
RECURSIVE ParamsSet(_, _, _)
ParamsSet(p, k, v) ==
    IF p = <<>> THEN <<[k |-> k, v |-> v]>>
    ELSE IF p[1].k = k THEN <<[k |-> k, v |-> v]>> \o ParamsDelete(Tail(p), k)
    ELSE <<p[1]>> \o ParamsSet(Tail(p), k, v)

\* application/x-www-form-urlencoded of one value: a space is written "+",
\* a literal "+" is written %2B
RECURSIVE FormEncode(_)
FormEncode(s) ==
    IF s = <<>> THEN <<>>
    ELSE IF s[1] = SP THEN <<"+">> \o FormEncode(Tail(s))
    ELSE IF s[1] = "+" THEN <<"%", "2", "B">> \o FormEncode(Tail(s))
    ELSE <<s[1]>> \o FormEncode(Tail(s))

IsEscapedPlus(s) == Len(s) >= 3 /\ s[1] = "%" /\ s[2] = "2" /\ s[3] = "B"

RECURSIVE FormDecode(_)
FormDecode(s) ==
    IF s = <<>> THEN <<>>
    ELSE IF IsEscapedPlus(s) THEN <<"+">> \o FormDecode(SubSeq(s, 4, Len(s)))
    ELSE IF s[1] = "+" THEN <<SP>> \o FormDecode(Tail(s))
    ELSE <<s[1]>> \o FormDecode(Tail(s))

\* decodeURIComponent: percent escapes are decoded, "+" is left alone
RECURSIVE DecodeURIComponent(_)
DecodeURIComponent(s) ==
    IF s = <<>> THEN <<>>
    ELSE IF IsEscapedPlus(s) THEN <<"+">> \o DecodeURIComponent(SubSeq(s, 4, Len(s)))
    ELSE <<s[1]>> \o DecodeURIComponent(Tail(s))

\* URLSearchParams.prototype.toString, pair by pair
Serialize(p) == [i \in 1..Len(p) |-> [k |-> p[i].k, v |-> FormEncode(p[i].v)]]

\* new URLSearchParams(query)
ParseQuery(q) == [i \in 1..Len(q) |-> [k |-> q[i].k, v |-> FormDecode(q[i].v)]]

---------------------------------------------------------------------------
(* The host document.  The bound form holds a checkbox group "size" with   *)
(* the members m and l (slots 1 and 2) and one control "opt" (slots 3 and  *)
(* 4) whose kind the page chooses; a control "ext" carries the filter      *)
(* attribute outside the form.  "foo" names no control.                    *)

Kinds == {"select-multiple", "select-single", "radio", "text"}
Slots == 1..4
Names == {"size", "opt", "ext", "foo"}

Checkbox(v, slot) ==
    [name |-> "size", tag |-> "input", type |-> "checkbox", multiple |-> FALSE,
     value |-> v, slot |-> slot, options |-> <<>>, inForm |-> TRUE]

Radio(v, slot) ==
    [name |-> "opt", tag |-> "input", type |-> "radio", multiple |-> FALSE,
     value |-> v, slot |-> slot, options |-> <<>>, inForm |-> TRUE]

SelectEl(multiple, first) ==
    [name |-> "opt", tag |-> "select", type |-> "", multiple |-> multiple,
     value |-> NULL, slot |-> 0,
     options |-> <<[value |-> first, slot |-> 3], [value |-> <<"b">>, slot |-> 4]>>,
     inForm |-> TRUE]

TextInput ==
    [name |-> "opt", tag |-> "input", type |-> "text", multiple |-> FALSE,
     value |-> NULL, slot |-> 3, options |-> <<>>, inForm |-> TRUE]

Outside ==
    [name |-> "ext", tag |-> "input", type |-> "checkbox", multiple |-> FALSE,
     value |-> <<"e">>, slot |-> 0, options |-> <<>>, inForm |-> FALSE]

\* the elements carrying the filter attribute, in document order, by the kind
\* of the page's second control
ElementsOf ==
    [kind \in Kinds |->
        <<Checkbox(<<"m">>, 1), Checkbox(<<"l">>, 2)>> \o
        (CASE kind = "select-multiple" -> <<SelectEl(TRUE, <<"a">>)>>
           [] kind = "select-single"   -> <<SelectEl(FALSE, <<>>)>>
           [] kind = "radio"           -> <<Radio(<<"a">>, 3), Radio(<<"b">>, 4)>>
           [] OTHER                    -> <<TextInput>>) \o
        <<Outside>>]

Elements(pg) == ElementsOf[pg.kind]

Min(S) == CHOOSE x \in S : \A y \in S : x <= y

\* the indices of the elements a selector `[attr="name"][value="v"]` matches
\* (value = NULL: `[attr="name"]`), in the form only or in the whole document
Matches(els, name, value, formOnly) ==
    {i \in 1..Len(els) :
        /\ els[i].name = name
        /\ (value = NULL \/ els[i].value = value)
        /\ (formOnly => els[i].inForm)}

\* querySelector: the first match in document order, 0 for null
First(S) == IF S = {} THEN 0 ELSE Min(S)

DocIndex ==
    [kind \in Kinds |-> [name \in Names |-> First(Matches(ElementsOf[kind], name, NULL, FALSE))]]

FormIndex ==
    [kind \in Kinds |-> [name \in Names |-> First(Matches(ElementsOf[kind], name, NULL, TRUE))]]

\* document.querySelector(`[attr="name"]`)
DocQuery(pg, name) == DocIndex[pg.kind][name]

\* this.$form.querySelector(`[attr="name"]`)
FormQuery(pg, name) == FormIndex[pg.kind][name]

\* this.$form.querySelector(`[attr="name"][value="v"]`)
FormQueryValue(pg, name, v) == First(Matches(Elements(pg), name, v, TRUE))

\* the value property of a select: the value of its first selected option
SelectValue(el, s) ==
    IF \E j \in 1..Len(el.options) : s[el.options[j].slot]
    THEN el.options[Min({j \in 1..Len(el.options) : s[el.options[j].slot]})].value
    ELSE <<>>

\* assigning the value property of a select: every option is deselected, then
\* the first option with that value is selected
SetSelectValue(el, s, v) ==
    LET hit == {j \in 1..Len(el.options) : el.options[j].value = v}
        slots == {el.options[j].slot : j \in 1..Len(el.options)}
    IN  [x \in Slots |->
            IF x \in slots
            THEN hit # {} /\ x = el.options[Min(hit)].slot
            ELSE s[x]]

\* assigning checked = true to an input: a radio unchecks the rest of its group
SetChecked(pg, s, i) ==
    LET el == Elements(pg)[i]
        group == {Elements(pg)[j].slot :
                    j \in {j \in 1..Len(Elements(pg)) :
                             Elements(pg)[j].type = "radio" /\ Elements(pg)[j].name = el.name}}
    IN  [x \in Slots |->
            IF x = el.slot THEN TRUE
            ELSE IF el.type = "radio" /\ x \in group THEN FALSE
            ELSE s[x]]

---------------------------------------------------------------------------
(* The methods of Filter. *)

\* the types the switch statements treat as one directly valued control
DirectTypes == {"select-single", "color", "range", "date", "month", "week", "time"}

\* a type check that takes every input for a checkbox
CheckFilterTypeAnyInput(el) ==
    IF el.tag = "select"
    THEN (IF el.multiple THEN "select-multiple" ELSE "select-single")
    ELSE "checkbox"

\* Filter._checkFilterType
CheckFilterType(el) ==
    IF el.tag = "select"
    THEN (IF el.multiple THEN "select-multiple" ELSE "select-single")
    ELSE IF el.tag = "input" THEN el.type
    ELSE "null"

\* the names a parameter list mentions, each once, in order of first mention
RECURSIVE KeyOrder(_, _)
KeyOrder(p, seen) ==
    IF p = <<>> THEN <<>>
    ELSE IF p[1].k \in seen THEN KeyOrder(Tail(p), seen)
    ELSE <<p[1].k>> \o KeyOrder(Tail(p), seen \cup {p[1].k})

\* a parse in which the first pair named k wins
FirstValue(p, k) == SelectPairs(p, k)[1].v

\* the value of the last pair named k: a later assignment to objectFilters[k]
\* replaces an earlier one
LastValue(p, k) == SelectPairs(p, k)[Len(SelectPairs(p, k))].v

\* _parseFiltersFromUrl: keys is Object.keys of the result, val its values
ParseFiltersFromUrl(pg, p) ==
    LET keys == SelectSeq(KeyOrder(p, {}), LAMBDA k : DocQuery(pg, k) # 0)
    IN  [keys |-> keys,
         val  |-> [k \in {keys[i] : i \in 1..Len(keys)} |-> Split(LastValue(p, k))]]

\* a select-multiple case that deselects the options not among the tokens
SelectOptionsExactly(el, s, toks) ==
    [x \in Slots |->
        IF \E j \in 1..Len(el.options) : el.options[j].slot = x
        THEN \E j \in 1..Len(el.options) :
                el.options[j].slot = x /\ IndexOf(toks, el.options[j].value) > 0
        ELSE s[x]]

\* the select-multiple case of _updateFiltersFromUrl: an option whose value
\* is among the tokens is selected, the others are left as they are
SelectOptions(el, s, toks) ==
    [x \in Slots |->
        \/ s[x]
        \/ \E j \in 1..Len(el.options) :
              el.options[j].slot = x /\ IndexOf(toks, el.options[j].value) > 0]

\* the checkbox case of _updateFiltersFromUrl, token by token; a token no
\* member carries leaves querySelector null and the assignment raises
RECURSIVE CheckTokens(_, _, _, _)
CheckTokens(pg, s, name, toks) ==
    IF toks = <<>> THEN [sel |-> s, threw |-> FALSE]
    ELSE IF FormQueryValue(pg, name, toks[1]) = 0 THEN [sel |-> s, threw |-> TRUE]
    ELSE CheckTokens(pg, SetChecked(pg, s, FormQueryValue(pg, name, toks[1])), name, Tail(toks))

\* one iteration of the forEach of _updateFiltersFromUrl
WriteControl(pg, s, name, toks) ==
    LET i    == FormQuery(pg, name)
        el   == Elements(pg)[i]
        type == CheckFilterType(el)
        same == [sel |-> s, threw |-> FALSE, warned |-> FALSE]
    IN  IF i = 0 THEN same
        ELSE IF type \in DirectTypes
             THEN [same EXCEPT !.sel = SetSelectValue(el, s, Join(toks, CM))]
        ELSE IF type = "select-multiple"
             THEN [same EXCEPT !.sel = SelectOptions(el, s, toks)]
        ELSE IF type = "radio"
             THEN IF FormQueryValue(pg, name, Join(toks, CM)) = 0
                  THEN [same EXCEPT !.threw = TRUE]
                  ELSE [same EXCEPT
                          !.sel = SetChecked(pg, s, FormQueryValue(pg, name, Join(toks, CM)))]
        ELSE IF type = "checkbox"
             THEN [same EXCEPT !.sel   = CheckTokens(pg, s, name, toks).sel,
                               !.threw = CheckTokens(pg, s, name, toks).threw]
        ELSE [same EXCEPT !.warned = TRUE]

RECURSIVE ApplyKeys(_, _, _, _, _)
ApplyKeys(pg, s, keys, val, warned) ==
    IF keys = <<>> THEN [sel |-> s, threw |-> FALSE, warned |-> warned]
    ELSE LET w == WriteControl(pg, s, keys[1], val[keys[1]])
         IN  IF w.threw THEN [sel |-> w.sel, threw |-> TRUE, warned |-> warned]
             ELSE ApplyKeys(pg, w.sel, Tail(keys), val, warned \/ w.warned)

\* _updateFiltersFromUrl
UpdateFiltersFromUrl(pg, s, p) ==
    ApplyKeys(pg, s, ParseFiltersFromUrl(pg, p).keys, ParseFiltersFromUrl(pg, p).val, FALSE)

\* the values of the selected options of a select, in option order
SelectedValues(el, s) ==
    LET picked == SelectSeq(el.options, LAMBDA o : s[o.slot])
    IN  [j \in 1..Len(picked) |-> picked[j].value]

\* the value property of the target of a change event
ControlValue(el, s) == IF el.tag = "select" THEN SelectValue(el, s) ELSE el.value

\* a checkbox case that puts a newly checked value in front of the others
CheckboxUpdatePrepends(p, name, value, checked) ==
    IF ParamsHas(p, name)
    THEN IF checked
         THEN ParamsSet(p, name, value \o <<SP>> \o ParamsGet(p, name))
         ELSE ParamsDelete(p, name)
    ELSE ParamsAppend(p, name, value)

\* the checkbox case of _updateUrlFromFilters
CheckboxUpdate(p, name, value, checked) ==
    LET filterParams == Split(TemplateStr(ParamsGet(p, name)))
    IN  IF ParamsHas(p, name)
        THEN IF checked
             THEN ParamsSet(p, name, ParamsGet(p, name) \o <<SP>> \o value)
             ELSE IF Len(filterParams) > 1
             THEN ParamsSet(ParamsDelete(p, name), name,
                            Join(Splice1(filterParams, IndexOf(filterParams, value)), SP))
             ELSE ParamsDelete(p, name)
        ELSE ParamsAppend(p, name, value)

\* a directly valued case without the test for the empty string
DirectUpdateKeepsEmpty(p, name, value) == ParamsSet(p, name, value)

\* the directly valued case of _updateUrlFromFilters
DirectUpdate(p, name, value) ==
    IF value # <<>> THEN ParamsSet(p, name, value) ELSE ParamsDelete(p, name)

\* the select-multiple case of _updateUrlFromFilters
MultipleUpdate(p, name, values) == ParamsSet(p, name, Join(values, SP))

\* _updateUrlFromFilters on a change event whose target is element i
UpdateUrlFromFilters(pg, s, p, i) ==
    LET el   == Elements(pg)[i]
        type == CheckFilterType(el)
    IN  IF type \in DirectTypes \cup {"radio"}
        THEN [params |-> DirectUpdate(p, el.name, ControlValue(el, s)), warned |-> FALSE]
        ELSE IF type = "select-multiple"
        THEN [params |-> MultipleUpdate(p, el.name, SelectedValues(el, s)), warned |-> FALSE]
        ELSE IF type = "checkbox"
        THEN [params |-> CheckboxUpdate(p, el.name, el.value, s[el.slot]), warned |-> FALSE]
        ELSE [params |-> p, warned |-> TRUE]

\* a commit that forgets to replace the search of newUrl
UpdatableUrlKeepsSearch(newUrl, p) == newUrl

\* the address _setFiltersToGlobalUrl pushes: newUrl with its search replaced
UpdatableUrl(newUrl, p) == [path |-> newUrl.path, query |-> Serialize(p)]

\* window.history.pushState: the entries after the current one are dropped
PushState(h, i, a) == Append(SubSeq(h, 1, i), a)

\* the parameter list the constructor builds: the serialized query goes
\* through decodeURIComponent before it is parsed
ConstructorParams(q) ==
    ParseQuery([i \in 1..Len(q) |->
        [k |-> q[i].k, v |-> DecodeURIComponent(Serialize(ParseQuery(q))[i].v)]])

\* the parameter list _updateUrl builds from the live address
UpdateUrlParams(q) == ParseQuery(q)

\* the names _resetGlobalUrl deletes from urlFilters
RECURSIVE DeleteKeys(_, _)
DeleteKeys(p, keys) ==
    IF keys = <<>> THEN p ELSE DeleteKeys(ParamsDelete(p, keys[1]), Tail(keys))

\* a reset that looks the names up in the form instead of the document
ResetParamsFormOnly(pg, p) ==
    DeleteKeys(p, SelectSeq(ParseFiltersFromUrl(pg, p).keys, LAMBDA k : FormQuery(pg, k) # 0))

ResetParams(pg, p) == DeleteKeys(p, ParseFiltersFromUrl(pg, p).keys)

\* getFiltersFromUrl on the snapshot p
FiltersOf(pg, p) == ParseFiltersFromUrl(pg, p).val

\* getFiltersFromUrl: the mapping of the current snapshot
CurrentState == FiltersOf(page, urlFilters)

---------------------------------------------------------------------------
(* The pages and addresses the model starts from. *)

P(k, v) == [k |-> k, v |-> v]

\* the default state of the controls: the first option of a single select
\* is its default; a checkbox may carry the checked attribute
DefaultsOf(kind) ==
    {[x \in Slots |-> (x = 2 /\ lChecked) \/ (x = 3 /\ kind = "select-single")] :
        lChecked \in BOOLEAN}

Pages == UNION {{[kind |-> kind, dflt |-> d] : d \in DefaultsOf(kind)} : kind \in Kinds}

\* the queries of the address the page is loaded with, in encoded form
InitQueries ==
    { <<>>,
      <<P("size", <<"m">>)>>,
      <<P("foo", <<"z">>), P("size", <<"l">>), P("opt", <<"b">>)>>,
      <<P("size", <<"z">>)>>,
      <<P("opt", <<"b", "+", "a">>)>>,
      <<P("ext", <<"e">>), P("size", <<"m", "+", "l">>)>>,
      <<P("size", <<"m">>), P("size", <<"l">>)>> }

\* an address of another page the host may hand to setFiltersToUrl
OtherAddress == [path |-> "/p", query |-> <<P("foo", <<"y">>)>>]

Result(op, arg, threw, warned) ==
    [op |-> op, arg |-> arg, threw |-> threw, warned |-> warned]

\* no second instance has been constructed
NoPeer == [url |-> [path |-> "/", query |-> <<>>], urlFilters |-> <<>>, checked |-> FALSE]

Init ==
    /\ page \in Pages
    /\ sel = page.dflt
    /\ location \in {[path |-> "/", query |-> q] : q \in InitQueries}
    /\ history = <<location>>
    /\ hidx = 1
    /\ url = location
    /\ urlFilters = ConstructorParams(location.query)
    /\ listening = FALSE
    /\ last = Result("new", 0, FALSE, FALSE)
    /\ steps = 0
    /\ pending = [todo |-> {}, fired |-> <<>>]
    /\ peer = NoPeer

---------------------------------------------------------------------------
(* The operations. *)

\* initFilters: the listeners are installed only if the update returns
InitFilters ==
    /\ ~listening
    /\ LET r == UpdateFiltersFromUrl(page, sel, urlFilters)
       IN  /\ sel' = r.sel
           /\ listening' = ~r.threw
           /\ last' = Result("init", 0, r.threw, r.warned)
    /\ UNCHANGED <<page, location, history, hidx, url, urlFilters>>

\* updateFilters
UpdateFilters ==
    /\ LET r == UpdateFiltersFromUrl(page, sel, urlFilters)
       IN  /\ sel' = r.sel
           /\ last' = Result("refresh", 0, r.threw, r.warned)
    /\ UNCHANGED <<page, location, history, hidx, url, urlFilters, listening>>

\* _setFiltersToGlobalUrl, _updateUrl included; arg of the result is 1 when
\* this is resetUrl run right after resetFilters (resetFilters: right after
\* resetUrl), so that a state shows that both halves of a reset have run
SetFiltersToGlobalUrl(newUrl, p, op) ==
    /\ history' = PushState(history, hidx, UpdatableUrl(newUrl, p))
    /\ hidx' = hidx + 1
    /\ location' = UpdatableUrl(newUrl, p)
    /\ url' = UpdatableUrl(newUrl, p)
    /\ urlFilters' = UpdateUrlParams(UpdatableUrl(newUrl, p).query)
    /\ last' = Result(op, IF op = "resetUrl" /\ last.op = "resetFilters" THEN 1 ELSE 0,
                       FALSE, FALSE)
    /\ UNCHANGED <<page, sel, listening>>

\* setFiltersToUrl
SetFiltersToUrl(newUrl) == SetFiltersToGlobalUrl(newUrl, urlFilters, "commit")

\* resetUrl
ResetUrl == SetFiltersToGlobalUrl(url, ResetParams(page, urlFilters), "resetUrl")

\* resetFilters: form.reset()
ResetFilters ==
    /\ sel' = page.dflt
    /\ last' = Result("resetFilters", IF last.op = "resetUrl" THEN 1 ELSE 0, FALSE, FALSE)
    /\ UNCHANGED <<page, location, history, hidx, url, urlFilters, listening>>

\* the control states one user interaction with element i can leave
UserChanges(pg, s, i) ==
    LET el == Elements(pg)[i]
    IN  IF ~el.inForm THEN {}
        ELSE IF el.tag = "select" /\ el.multiple
        THEN {[s EXCEPT ![el.options[j].slot] = ~s[el.options[j].slot]] :
                j \in 1..Len(el.options)}
        ELSE IF el.tag = "select"
        THEN {SetSelectValue(el, s, el.options[j].value) :
                j \in {j \in 1..Len(el.options) : ~s[el.options[j].slot]}}
        ELSE IF el.type = "radio"
        THEN (IF s[el.slot] THEN {} ELSE {SetChecked(pg, s, i)})
        ELSE {[s EXCEPT ![el.slot] = ~s[el.slot]]}

\* a change listener that pushes the updated parameters itself
ChangeCommits(i) ==
    /\ listening
    /\ \E s2 \in UserChanges(page, sel, i) :
          LET r == UpdateUrlFromFilters(page, s2, urlFilters, i)
          IN  /\ sel' = s2
              /\ urlFilters' = r.params
              /\ location' = UpdatableUrl(url, r.params)
              /\ history' = PushState(history, hidx, UpdatableUrl(url, r.params))
              /\ last' = Result("change", i, FALSE, r.warned)
    /\ hidx' = hidx + 1
    /\ url' = location'
    /\ UNCHANGED <<page, listening>>

\* a user changes control i; the change listener, if installed, runs
Change(i) ==
    /\ \E s2 \in UserChanges(page, sel, i) :
          LET r == UpdateUrlFromFilters(page, s2, urlFilters, i)
          IN  /\ sel' = s2
              /\ IF listening
                 THEN /\ urlFilters' = r.params
                      /\ last' = Result("change", i, FALSE, r.warned)
                 ELSE /\ urlFilters' = urlFilters
                      /\ last' = Result("input", i, FALSE, FALSE)
    /\ UNCHANGED <<page, location, history, hidx, url, listening>>

\* a popstate listener that does not run _updateUrl: the snapshot it holds
\* is applied to the form again
TraverseKeepsSnapshot(d) ==
    /\ hidx + d \in 1..Len(history)
    /\ listening
    /\ hidx' = hidx + d
    /\ location' = history[hidx + d]
    /\ sel' = UpdateFiltersFromUrl(page, page.dflt, urlFilters).sel
    /\ last' = Result("popstate", d, UpdateFiltersFromUrl(page, page.dflt, urlFilters).threw, FALSE)
    /\ UNCHANGED <<page, history, url, urlFilters, listening>>

\* a popstate listener that pushes the address it has just read
TraversePushes(d) ==
    /\ hidx + d \in 1..Len(history)
    /\ listening
    /\ hidx' = hidx + d + 1
    /\ history' = PushState(history, hidx + d, history[hidx + d])
    /\ location' = history[hidx + d]
    /\ url' = history[hidx + d]
    /\ urlFilters' = UpdateUrlParams(history[hidx + d].query)
    /\ sel' = UpdateFiltersFromUrl(page, page.dflt, urlFilters').sel
    /\ last' = Result("popstate", d, FALSE, FALSE)
    /\ UNCHANGED <<page, listening>>

\* the user goes back (d = -1) or forward (d = 1); the popstate listener,
\* if installed, runs _updateUrl, _resetFilters, _updateFiltersFromUrl
Traverse(d) ==
    /\ hidx + d \in 1..Len(history)
    /\ hidx' = hidx + d
    /\ location' = history[hidx + d]
    /\ IF listening
       THEN LET r == UpdateFiltersFromUrl(page, page.dflt,
                                          UpdateUrlParams(history[hidx + d].query))
            IN  /\ url' = history[hidx + d]
                /\ urlFilters' = UpdateUrlParams(history[hidx + d].query)
                /\ sel' = r.sel
                /\ last' = Result("popstate", d, r.threw, r.warned)
       ELSE /\ UNCHANGED <<url, urlFilters, sel>>
            /\ last' = Result("traverse", d, FALSE, FALSE)
    /\ UNCHANGED <<page, history, listening>>

\* one more operation of a run
Tick ==
    /\ steps < MaxSteps
    /\ steps' = steps + 1
    /\ pending' = pending
    /\ peer' = peer

Next ==
    \/ Tick /\ InitFilters
    \/ Tick /\ UpdateFilters
    \/ Tick /\ \E a \in {url, OtherAddress} : SetFiltersToUrl(a)
    \/ Tick /\ ResetUrl
    \/ Tick /\ ResetFilters
    \/ Tick /\ \E i \in 1..Len(Elements(page)) : Change(i)
    \/ Tick /\ \E d \in {-1, 1} : Traverse(d)

Spec == Init /\ [][Next]_vars

---------------------------------------------------------------------------
(* The round trip of section 8: a FilterState is written into a form at    *)
(* its defaults by _updateFiltersFromUrl, then every control it changed    *)
(* reports one change event to _updateUrlFromFilters, starting from an     *)
(* empty parameter list.  The given FilterState is held as the query of    *)
(* the live address.                                                       *)

\* the most tokens a given FilterState has for one name
MaxTokens == 2

RECURSIVE TokenSeqs(_, _)
TokenSeqs(toks, n) ==
    IF n = 0 THEN {<<>>}
    ELSE {<<t>> \o r : t \in toks, r \in TokenSeqs(toks, n - 1)}

\* the serialized token sets of 1..MaxTokens tokens
ValuesOver(toks) == {Join(ts, SP) : ts \in UNION {TokenSeqs(toks, n) : n \in 1..MaxTokens}}

GivenParams ==
    LET size == {<<>>} \cup {<<P("size", v)>> : v \in ValuesOver({<<"m">>, <<"l">>, <<"z">>})}
        opt  == {<<>>} \cup {<<P("opt", v)>> : v \in ValuesOver({<<"a">>, <<"b">>})}
    IN  {a \o b : a \in size, b \in opt} \cup {b \o a : a \in size, b \in opt}

\* the form controls whose state differs from the default, hence report a
\* change event; of a radio group, the member that got checked
ChangedControls(pg, s) ==
    {i \in 1..Len(Elements(pg)) :
        LET el == Elements(pg)[i]
        IN  /\ el.inForm
            /\ IF el.tag = "select"
               THEN \E j \in 1..Len(el.options) :
                       s[el.options[j].slot] # pg.dflt[el.options[j].slot]
               ELSE s[el.slot] # pg.dflt[el.slot] /\ (el.type = "radio" => s[el.slot])}

RTInit ==
    /\ page \in Pages
    /\ sel = page.dflt
    /\ location \in {[path |-> "/", query |-> Serialize(g)] : g \in GivenParams}
    /\ history = <<location>>
    /\ hidx = 1
    /\ url = location
    /\ urlFilters = <<>>
    /\ listening = FALSE
    /\ last = Result("new", 0, FALSE, FALSE)
    /\ steps = 0
    /\ pending = [todo |-> {}, fired |-> <<>>]
    /\ peer = NoPeer

\* _updateFiltersFromUrl of the given FilterState
RTApply ==
    /\ last.op = "new"
    /\ LET r == UpdateFiltersFromUrl(page, sel, ParseQuery(location.query))
       IN  /\ sel' = r.sel
           /\ last' = Result("apply", 0, r.threw, r.warned)
           /\ pending' = [todo |-> ChangedControls(page, r.sel), fired |-> <<>>]
    /\ UNCHANGED <<page, location, history, hidx, url, urlFilters, listening, steps, peer>>

\* _updateUrlFromFilters on the change event of one changed control
RTDerive(i) ==
    /\ i \in pending.todo
    /\ urlFilters' = UpdateUrlFromFilters(page, sel, urlFilters, i).params
    /\ last' = Result("derive", i, last.threw,
                      last.warned \/ UpdateUrlFromFilters(page, sel, urlFilters, i).warned)
    /\ pending' = [todo |-> pending.todo \ {i}, fired |-> Append(pending.fired, i)]
    /\ UNCHANGED <<page, sel, location, history, hidx, url, listening, steps, peer>>

RTNext ==
    \/ RTApply
    \/ \E i \in 1..Len(Elements(page)) : RTDerive(i)

SpecRT == RTInit /\ [][RTNext]_vars

---------------------------------------------------------------------------
(* _updateFiltersFromUrl on its own: called through updateFilters with the *)
(* controls in any state a user can have left them in and the snapshot     *)
(* holding any of the given parameter lists.                               *)

\* the control states a page can show: at most one member of a radio group
\* and one option of a single select are on, a slot of no control is off
ControlStates(pg) ==
    {s \in [Slots -> BOOLEAN] :
        /\ pg.kind \in {"radio", "select-single"} => ~(s[3] /\ s[4])
        /\ pg.kind = "text" => ~s[4]}

ApplyInit ==
    /\ page \in Pages
    /\ sel \in ControlStates(page)
    /\ urlFilters \in GivenParams
    /\ location = [path |-> "/", query |-> Serialize(urlFilters)]
    /\ history = <<location>>
    /\ hidx = 1
    /\ url = location
    /\ listening = FALSE
    /\ last = Result("new", 0, FALSE, FALSE)
    /\ steps = 0
    /\ pending = [todo |-> {}, fired |-> <<>>]
    /\ peer = NoPeer

\* updateFilters, once
ApplyOnce ==
    /\ last.op = "new"
    /\ UpdateFilters
    /\ UNCHANGED <<steps, pending, peer>>

SpecApply == ApplyInit /\ [][ApplyOnce]_vars

---------------------------------------------------------------------------
(* Two instances on one page.  The first is bound to the form of "size"    *)
(* and "opt", the second to a container holding the checkbox "ext" with    *)
(* the value e.  Both were constructed when the page loaded and both have  *)
(* run initFilters.  Each keeps its own url and urlFilters; window.location *)
(* and the session history are the page's.                                 *)

E == <<"e">>

PeerQueries ==
    { <<>>,
      <<P("size", <<"m">>)>>,
      <<P("ext", E), P("size", <<"m", "+", "l">>)>> }

\* the names of the controls in the first instance's form, and in the
\* second's container
OwnNames ==
    {Elements(page)[i].name :
        i \in {i \in 1..Len(Elements(page)) : Elements(page)[i].inForm}}
PeerNames ==
    {Elements(page)[i].name :
        i \in {i \in 1..Len(Elements(page)) : ~Elements(page)[i].inForm}}

\* getFiltersFromUrl of the second instance
PeerState == ParseFiltersFromUrl(page, peer.urlFilters).val

TwoInit ==
    /\ page \in Pages
    /\ location \in {[path |-> "/", query |-> q] : q \in PeerQueries}
    /\ history = <<location>>
    /\ hidx = 1
    /\ url = location
    /\ urlFilters = ConstructorParams(location.query)
    /\ sel = UpdateFiltersFromUrl(page, page.dflt, urlFilters).sel
    /\ listening = TRUE
    /\ last = Result("init", 0, FALSE, FALSE)
    /\ steps = 0
    /\ pending = [todo |-> {}, fired |-> <<>>]
    /\ peer = [url        |-> location,
               urlFilters |-> ConstructorParams(location.query),
               checked    |-> ParamsHas(ConstructorParams(location.query), "ext")]

PeerTick ==
    /\ steps < MaxSteps
    /\ steps' = steps + 1
    /\ pending' = pending

\* a change event on the checkbox of the second instance
PeerChange ==
    /\ peer' = [peer EXCEPT
                  !.checked = ~peer.checked,
                  !.urlFilters = CheckboxUpdate(peer.urlFilters, "ext", E, ~peer.checked)]
    /\ last' = Result("peerChange", 0, FALSE, FALSE)
    /\ UNCHANGED <<page, sel, location, history, hidx, url, urlFilters, listening>>

\* setFiltersToUrl(this.url) of the second instance
PeerCommit ==
    /\ history' = PushState(history, hidx, UpdatableUrl(peer.url, peer.urlFilters))
    /\ hidx' = hidx + 1
    /\ location' = UpdatableUrl(peer.url, peer.urlFilters)
    /\ peer' = [peer EXCEPT
                  !.url = UpdatableUrl(peer.url, peer.urlFilters),
                  !.urlFilters = UpdateUrlParams(UpdatableUrl(peer.url, peer.urlFilters).query)]
    /\ last' = Result("peerCommit", 0, FALSE, FALSE)
    /\ UNCHANGED <<page, sel, url, urlFilters, listening>>

TwoNext ==
    \/ Tick /\ \E i \in 1..Len(Elements(page)) : Change(i)
    \/ Tick /\ SetFiltersToUrl(url)
    \/ PeerTick /\ PeerChange
    \/ PeerTick /\ PeerCommit

SpecTwo == TwoInit /\ [][TwoNext]_vars

---------------------------------------------------------------------------
(* What the properties below speak of. *)

\* a control carrying the filter attribute with this name exists in the page
Registered(pg, name) == \E i \in 1..Len(Elements(pg)) : Elements(pg)[i].name = name

\* the FilterState an encoded query stands for
StateOf(pg, q) == ParseFiltersFromUrl(pg, ParseQuery(q)).val

\* the set of tokens of a token sequence
TokenSet(toks) == {toks[j] : j \in 1..Len(toks)}

\* the index of the element slot x belongs to, as its own slot or as the
\* slot of one of its options; 0 when the page has no such slot
SlotIndex ==
    [kind \in Kinds |-> [x \in Slots |->
        First({i \in 1..Len(ElementsOf[kind]) :
                 \/ ElementsOf[kind][i].slot = x
                 \/ \E j \in 1..Len(ElementsOf[kind][i].options) :
                       ElementsOf[kind][i].options[j].slot = x})]]

\* the name and value a slot of the form answers to: "" and NULL when none
\* does
SlotNames ==
    [kind \in Kinds |-> [x \in Slots |->
        IF SlotIndex[kind][x] = 0 THEN ""
        ELSE ElementsOf[kind][SlotIndex[kind][x]].name]]

SlotValues ==
    [kind \in Kinds |-> [x \in Slots |->
        IF SlotIndex[kind][x] = 0 THEN NULL
        ELSE LET el == ElementsOf[kind][SlotIndex[kind][x]]
             IN  IF el.slot = x THEN el.value
                 ELSE el.options[CHOOSE j \in 1..Len(el.options) :
                                    el.options[j].slot = x].value]]

SlotName(pg, x) == SlotNames[pg.kind][x]

SlotValue(pg, x) == SlotValues[pg.kind][x]

\* the control state a FilterState specifies: a member or option of a named
\* control is on exactly when its value is a token of the name; a control
\* whose name is absent, or that takes no value from a state, is at default
Specified(pg, fs) ==
    [x \in Slots |->
        IF SlotName(pg, x) \in DOMAIN fs /\ SlotValue(pg, x) # NULL
        THEN SlotValue(pg, x) \in TokenSet(fs[SlotName(pg, x)])
        ELSE pg.dflt[x]]

\* the pairs of a parameter list whose names carry no control
Foreign(pg, p) == SelectSeq(p, LAMBDA e : ~Registered(pg, e.k))

---------------------------------------------------------------------------
(* C1 *)

---------------------------------------------------------------------------
(* C2 *)

\* C2 as stated: when the popstate listener has completed, every control of
\* the form is in the state the address navigated to specifies.
C2_FormReflectsAddress ==
    (last.op = "popstate" /\ ~last.threw) =>
        /\ url = location
        /\ sel = Specified(page, StateOf(page, location.query))

---------------------------------------------------------------------------
(* C3 *)

\* C3: setFiltersToUrl pushes exactly one history entry, the page is not
\* reloaded, the live address is the target with its query replaced by the
\* serialized snapshot parameters, and the snapshot is refreshed from it.
C3_CommitPushesSnapshot ==
    [][ last'.op = "commit" =>
          /\ \E a \in {url, OtherAddress} :
                location' = [path |-> a.path, query |-> Serialize(urlFilters)]
          /\ history' = Append(SubSeq(history, 1, hidx), location')
          /\ hidx' = hidx + 1
          /\ url' = location'
          /\ Serialize(urlFilters') = location'.query
          /\ StateOf(page, location'.query) = CurrentState
          /\ sel' = sel /\ listening' = listening /\ page' = page ]_vars

\* a commit to another page's address of a snapshot that a change event has
\* given a filter the loaded address did not have
C3_Witness ==
    /\ last.op = "commit"
    /\ location.path = OtherAddress.path
    /\ DOMAIN CurrentState # {}
    /\ StateOf(page, history[1].query) # CurrentState

---------------------------------------------------------------------------
(* C4 *)

\* no pair of the encoded query q is named after a control
NoRegistered(pg, q) == \A j \in 1..Len(q) : ~Registered(pg, q[j].k)

\* C4: resetUrl commits the snapshot parameters less every registered name,
\* and once both halves of a reset have run, in either order, the FilterState
\* is empty, the live query names no control and every control is at default.
C4_ResetClearsBoth ==
    [][ /\ last'.op = "resetUrl" =>
            /\ NoRegistered(page, location'.query)
            /\ ParseQuery(location'.query) = Foreign(page, urlFilters)
            /\ Len(history') = hidx + 1
        /\ (last'.op \in {"resetUrl", "resetFilters"} /\ last'.arg = 1) =>
            /\ DOMAIN FiltersOf(page, urlFilters') = {}
            /\ NoRegistered(page, location'.query)
            /\ sel' = page.dflt ]_vars

\* both halves have run on a form that was changed, and a foreign parameter
\* is still in the live query
C4_Witness ==
    /\ last.op \in {"resetUrl", "resetFilters"}
    /\ last.arg = 1
    /\ listening
    /\ location.query # <<>>
    /\ \E j \in 1..(Len(history) - 1) : ~NoRegistered(page, history[j].query)

---------------------------------------------------------------------------
(* C5 *)

\* C5 as stated: every name of the FilterState has at least one token and no
\* empty token.
C5_NoEmptyEntry ==
    \A n \in DOMAIN CurrentState :
        /\ Len(CurrentState[n]) >= 1
        /\ \A j \in 1..Len(CurrentState[n]) : CurrentState[n][j] # <<>>

---------------------------------------------------------------------------
(* C6 *)

RTDone == last.op \in {"apply", "derive"} /\ pending.todo = {}

DefaultOn(pg, n, v) ==
    \E x \in Slots : SlotName(pg, x) = n /\ SlotValue(pg, x) = v /\ pg.dflt[x]

Carried(pg, n, v) == \E x \in Slots : SlotName(pg, x) = n /\ SlotValue(pg, x) = v

\* a FilterState the controls of the form can show: every name is a control
\* of the form, its tokens are distinct values of members or options that
\* are not on by default, and a radio group or single select has one token
Representable(pg, fs) ==
    \A n \in DOMAIN fs :
        /\ FormQuery(pg, n) # 0
        /\ Cardinality(TokenSet(fs[n])) = Len(fs[n])
        /\ \A t \in TokenSet(fs[n]) : Carried(pg, n, t) /\ ~DefaultOn(pg, n, t)
        /\ CheckFilterType(Elements(pg)[FormQuery(pg, n)]) \in DirectTypes \cup {"radio"}
              => Len(fs[n]) = 1

\* the values of the checkboxes among a sequence of element indices
CheckboxValues(pg, fired) ==
    LET boxes == SelectSeq(fired, LAMBDA i : Elements(pg)[i].type = "checkbox")
    IN  [j \in 1..Len(boxes) |-> Elements(pg)[boxes[j]].value]

---------------------------------------------------------------------------
(* C7 *)

\* C7 as stated: of two calls of updateFilters in a row, the second leaves
\* every control as the first left it, and both return normally.
C7_RefreshIdempotent ==
    [][ (last.op = "refresh" /\ last'.op = "refresh") =>
            (sel' = sel /\ ~last.threw /\ ~last'.threw) ]_vars

---------------------------------------------------------------------------
(* C8 *)

\* toks is v split on the space character
SplitsTo(v, toks) ==
    /\ Len(toks) >= 1
    /\ Join(toks, SP) = v
    /\ \A j \in 1..Len(toks) : \A c \in 1..Len(toks[j]) : toks[j][c] # SP

\* the names of the FilterState are the registered names among the
\* parameters; none when there are no parameters
KeepsRegistered(pg, p, fs) ==
    /\ DOMAIN fs = {p[i].k : i \in {i \in 1..Len(p) : Registered(pg, p[i].k)}}
    /\ p = <<>> => DOMAIN fs = {}

\* C8 as stated: a parameter is kept exactly when its name is registered,
\* and each kept parameter maps to its value split on the space character.
C8_ParseKeepsEachParameter ==
    /\ KeepsRegistered(page, urlFilters, CurrentState)
    /\ \A i \in 1..Len(urlFilters) :
          Registered(page, urlFilters[i].k) =>
              SplitsTo(urlFilters[i].v, CurrentState[urlFilters[i].k])

\* C8 as amended: a name is kept exactly when it is registered, and maps to
\* the value of the last parameter of that name, split on the space
\* character.
C8_ParseKeepsLastParameter ==
    /\ KeepsRegistered(page, urlFilters, CurrentState)
    /\ \A i \in 1..Len(urlFilters) :
          (/\ Registered(page, urlFilters[i].k)
           /\ \A j \in (i + 1)..Len(urlFilters) : urlFilters[j].k # urlFilters[i].k) =>
              SplitsTo(urlFilters[i].v, CurrentState[urlFilters[i].k])

\* parameter lists with a name given twice, with a foreign name, with a
\* value of two tokens: each is parsed in some state
C8_Witness ==
    /\ last.op = "init"
    /\ \E i, j \in 1..Len(urlFilters) :
          i < j /\ urlFilters[i].k = urlFilters[j].k /\ Registered(page, urlFilters[i].k)
    /\ urlFilters[1].v # urlFilters[Len(urlFilters)].v

---------------------------------------------------------------------------
(* C9 and C10 *)

IsCheckbox(pg, i) == i \in 1..Len(Elements(pg)) /\ Elements(pg)[i].type = "checkbox"

\* C9 as stated: a check event for v on a checkbox named n makes the entry
\* of n the sequence <<v>> when n had none, and the old sequence with v
\* appended when it had one.
C9_CheckAppends ==
    [][ (/\ last'.op = "change"
         /\ IsCheckbox(page, last'.arg)
         /\ sel'[Elements(page)[last'.arg].slot]) =>
            LET n == Elements(page)[last'.arg].name
                v == Elements(page)[last'.arg].value
            IN  /\ n \in DOMAIN FiltersOf(page, urlFilters')
                /\ FiltersOf(page, urlFilters')[n] =
                      IF n \in DOMAIN CurrentState THEN Append(CurrentState[n], v) ELSE <<v>> ]_vars

\* new is old less one occurrence of v; old itself when v does not occur
RemovesOnly(old, v, new) ==
    IF v \in TokenSet(old)
    THEN \E j \in 1..Len(old) : old[j] = v /\ new = RemoveAt(old, j)
    ELSE new = old

\* C10 as stated: an uncheck event for v on a checkbox named n removes v,
\* and nothing else, from an entry of more than one token, and removes an
\* entry of one token whole.
C10_UncheckRemoves ==
    [][ (/\ last'.op = "change"
         /\ IsCheckbox(page, last'.arg)
         /\ ~sel'[Elements(page)[last'.arg].slot]
         /\ Elements(page)[last'.arg].name \in DOMAIN CurrentState) =>
            LET n == Elements(page)[last'.arg].name
                v == Elements(page)[last'.arg].value
            IN  IF Len(CurrentState[n]) > 1
                THEN /\ n \in DOMAIN FiltersOf(page, urlFilters')
                     /\ RemovesOnly(CurrentState[n], v, FiltersOf(page, urlFilters')[n])
                ELSE n \notin DOMAIN FiltersOf(page, urlFilters') ]_vars

---------------------------------------------------------------------------
(* C11 *)

\* the element a change event was delivered to
Target(pg, r) == Elements(pg)[r.arg]

IsDirect(pg, i) ==
    /\ i \in 1..Len(Elements(pg))
    /\ CheckFilterType(Elements(pg)[i]) \in DirectTypes \cup {"radio"}

\* C11: a change event on a single-value or radio control named n removes n
\* from the FilterState when the control's value is the empty string, and
\* otherwise makes the token sequence of n exactly the control's value,
\* whatever n held before.
C11_DirectSetsOrRemoves ==
    [][ (last'.op = "change" /\ IsDirect(page, last'.arg)) =>
            LET n == Target(page, last').name
                v == ControlValue(Target(page, last'), sel')
            IN  IF v = <<>>
                THEN n \notin DOMAIN FiltersOf(page, urlFilters')
                ELSE /\ n \in DOMAIN FiltersOf(page, urlFilters')
                     /\ FiltersOf(page, urlFilters')[n] = <<v>> ]_vars

\* a single select was set to its empty option while the address still
\* names it: its entry is gone from the snapshot
C11_Witness ==
    /\ last.op = "change"
    /\ IsDirect(page, last.arg)
    /\ ControlValue(Target(page, last), sel) = <<>>
    /\ ParamsHas(location.query, "opt")
    /\ ~ParamsHas(urlFilters, "opt")

---------------------------------------------------------------------------
(* C12 *)

IsMultiple(pg, i) ==
    /\ i \in 1..Len(Elements(pg))
    /\ CheckFilterType(Elements(pg)[i]) = "select-multiple"

\* the token sequence the FilterState fs holds for n; none when n is absent
TokensOf(fs, n) == IF n \in DOMAIN fs THEN fs[n] ELSE <<>>

\* C12: a change event on a multiple select named n makes the token sequence
\* of n exactly the values of the selected options, in option order,
\* whatever n held before.
C12_MultipleReplaces ==
    [][ (last'.op = "change" /\ IsMultiple(page, last'.arg)) =>
            TokensOf(FiltersOf(page, urlFilters'), Target(page, last').name) =
                SelectedValues(Target(page, last'), sel') ]_vars

\* C12 for the change events that leave an option selected
C12_MultipleReplacesNonEmpty ==
    [][ (/\ last'.op = "change"
         /\ IsMultiple(page, last'.arg)
         /\ SelectedValues(Target(page, last'), sel') # <<>>) =>
            TokensOf(FiltersOf(page, urlFilters'), Target(page, last').name) =
                SelectedValues(Target(page, last'), sel') ]_vars

---------------------------------------------------------------------------
(* C13 *)

Pushing == {"commit", "resetUrl"}
Traversing == {"popstate", "traverse"}

\* C13: a step of initFilters, updateFilters, resetFilters or a change
\* event leaves the live address and the session history as they were; a
\* back or forward step moves to an entry the history already held and
\* its listener leaves address and history alone; only setFiltersToUrl and
\* resetUrl push an entry.
C13_OnlyCommitPushes ==
    [][ /\ last'.op \notin Pushing => history' = history
        /\ last'.op \notin Pushing \cup Traversing =>
              location' = location /\ hidx' = hidx
        /\ last'.op \in Traversing =>
              hidx' # hidx /\ location' = history[hidx'] ]_vars

\* the popstate listener has run on the middle entry of a history of three
C13_Witness ==
    /\ last.op = "popstate"
    /\ Len(history) >= 3
    /\ hidx = 2
    /\ history[1] # history[2]

---------------------------------------------------------------------------
(* C14 *)

\* the operations that run _updateFiltersFromUrl
Applying == {"init", "refresh", "popstate"}

\* the options of the select el are, in s, as an assignment of v to its
\* value property leaves them
ShowsValue(el, s, v) ==
    \A j \in 1..Len(el.options) :
        s[el.options[j].slot] = SetSelectValue(el, s, v)[el.options[j].slot]

\* C14: when a FilterState is applied, a single-value control whose name
\* has tokens gets the first token as its value, however many tokens there
\* are.
C14_FirstTokenOnly ==
    [][ (/\ last'.op \in Applying
         /\ ~last'.threw
         /\ page.kind = "select-single"
         /\ "opt" \in DOMAIN FiltersOf(page, urlFilters')) =>
            ShowsValue(Elements(page)[FormQuery(page, "opt")], sel',
                       FiltersOf(page, urlFilters')["opt"][1]) ]_vars

---------------------------------------------------------------------------
(* C15 *)

\* C15: an operation that applies the FilterState to the controls returns
\* normally, whatever the address holds.
C15_ApplyNeverRaises == last.op \in Applying => ~last.threw

---------------------------------------------------------------------------
(* C16 *)

\* the type of the control slot x belongs to; "" when the page has no
\* such slot
SlotTypes ==
    [kind \in Kinds |-> [x \in Slots |->
        IF SlotIndex[kind][x] = 0 THEN ""
        ELSE CheckFilterType(ElementsOf[kind][SlotIndex[kind][x]])]]

SlotType(pg, x) == SlotTypes[pg.kind][x]

\* the control states _updateFiltersFromUrl starts from in the step just
\* taken: the popstate listener resets the form first
Before(pg, s, r) == IF r.op = "popstate" THEN pg.dflt ELSE s

\* C16: applying a FilterState leaves every control whose name it lacks as
\* it was (so an empty FilterState changes nothing), never turns off a
\* checkbox or an option of a multiple select, and leaves those no token
\* refers to as they were.  Said of the slots the step has changed: such a
\* slot belongs to a name of the FilterState, and if it is a checkbox or an
\* option of a multiple select it is now on and its value is a token.
C16_ApplyOnlyAdds ==
    [][ last'.op \in Applying =>
          \A x \in Slots :
              sel'[x] # Before(page, sel, last')[x] =>
                  /\ SlotName(page, x) \in DOMAIN FiltersOf(page, urlFilters')
                  /\ SlotType(page, x) \in {"checkbox", "select-multiple"} =>
                        /\ sel'[x]
                        /\ SlotValue(page, x) \in
                              TokenSet(FiltersOf(page, urlFilters')[SlotName(page, x)]) ]_vars

\* updateFilters has run on a multiple select with option a selected by
\* the user and only b named by the FilterState: both are selected
C16_Witness ==
    /\ last.op = "refresh"
    /\ page.kind = "select-multiple"
    /\ sel[3] /\ sel[4]
    /\ "opt" \in DOMAIN CurrentState
    /\ CurrentState["opt"] = << <<"b">> >>

---------------------------------------------------------------------------
(* C17 *)

\* an element that is neither a select nor an input of a kind the class
\* handles
Unsupported(el) ==
    /\ el.tag # "select"
    /\ ~(el.tag = "input" /\
          el.type \in {"color", "range", "date", "month", "week", "time", "radio", "checkbox"})

\* the names of the controls of the form that are of no supported type
UnsupportedInForm ==
    [kind \in Kinds |->
        {ElementsOf[kind][i].name :
            i \in {i \in 1..Len(ElementsOf[kind]) :
                     ElementsOf[kind][i].inForm /\ Unsupported(ElementsOf[kind][i])}}]

\* the names of the FilterState fs whose control in the form is of no
\* supported type
UnsupportedNames(pg, fs) == {n \in UnsupportedInForm[pg.kind] : n \in DOMAIN fs}

\* C17: a change event on a control of unsupported type returns normally
\* with a diagnostic and leaves the snapshot as it was; applying a
\* FilterState that names such a control leaves the control as it was, and
\* when the operation returns it has emitted a diagnostic and has checked
\* the checkboxes the other names' tokens refer to.
C17_UnsupportedIsHarmless ==
    [][ /\ (/\ last'.op = "change"
            /\ Unsupported(Target(page, last'))) =>
                 /\ last'.warned /\ ~last'.threw
                 /\ urlFilters' = urlFilters
        /\ (/\ last'.op \in Applying
            /\ UnsupportedNames(page, FiltersOf(page, urlFilters')) # {}) =>
                 /\ \A x \in Slots :
                       SlotName(page, x) \in UnsupportedNames(page, FiltersOf(page, urlFilters')) =>
                           sel'[x] = Before(page, sel, last')[x]
                 /\ ~last'.threw =>
                       /\ last'.warned
                       /\ \A x \in Slots :
                             (/\ SlotType(page, x) = "checkbox"
                              /\ SlotName(page, x) \in DOMAIN FiltersOf(page, urlFilters')
                              /\ SlotValue(page, x) \in
                                    TokenSet(FiltersOf(page, urlFilters')[SlotName(page, x)]))
                                => sel'[x] ]_vars

\* initFilters has met a text input named by the address: it warned, and
\* the checkbox l the address also names is checked
C17_Witness ==
    /\ last.op = "init"
    /\ page.kind = "text"
    /\ last.warned /\ ~last.threw
    /\ ~page.dflt[2] /\ sel[2]

\* a change event on the text input has warned
C17_WitnessChange ==
    /\ last.op = "change"
    /\ Unsupported(Target(page, last))
    /\ last.warned

---------------------------------------------------------------------------
(* C18 *)

\* the pairs of the query q whose names are in the set names
PairsOf(q, names) == {q[i] : i \in {i \in 1..Len(q) : q[i].k \in names}}

\* C18: a commit by one instance keeps, in the live address, every
\* parameter of the other instance's names that was there before, and the
\* FilterState of each instance holds names of its own container only.
C18_InstancesCoexist ==
    [][ /\ last'.op = "commit" =>
              PairsOf(location.query, PeerNames) \subseteq PairsOf(location'.query, PeerNames)
        /\ last'.op = "peerCommit" =>
              PairsOf(location.query, OwnNames) \subseteq PairsOf(location'.query, OwnNames)
        /\ DOMAIN FiltersOf(page, urlFilters') \subseteq OwnNames
        /\ DOMAIN FiltersOf(page, peer'.urlFilters) \subseteq PeerNames ]_vars

\* C18, the commits alone
C18_CommitKeepsPeer ==
    [][ /\ last'.op = "commit" =>
              PairsOf(location.query, PeerNames) \subseteq PairsOf(location'.query, PeerNames)
        /\ last'.op = "peerCommit" =>
              PairsOf(location.query, OwnNames) \subseteq PairsOf(location'.query, OwnNames) ]_vars

---------------------------------------------------------------------------
(* C19 *)

\* the names of the checkbox groups of the form
GroupNames(pg) ==
    {Elements(pg)[i].name :
        i \in {i \in 1..Len(Elements(pg)) :
                 Elements(pg)[i].inForm /\ Elements(pg)[i].type = "checkbox"}}

\* the values of the checked members of the group n
CheckedValues(pg, s, n) ==
    {SlotValue(pg, x) : x \in {x \in Slots : SlotName(pg, x) = n /\ s[x]}}

\* C19: once initFilters has returned, the tokens held for a checkbox group
\* are the values of its checked members, each once, and the group's name
\* is absent exactly when no member is checked.
C19_TokensAreCheckedValues ==
    listening =>
        \A n \in GroupNames(page) :
            IF CheckedValues(page, sel, n) = {}
            THEN n \notin DOMAIN CurrentState
            ELSE /\ n \in DOMAIN CurrentState
                 /\ TokenSet(CurrentState[n]) = CheckedValues(page, sel, n)
                 /\ Len(CurrentState[n]) = Cardinality(CheckedValues(page, sel, n))

\* C19, the part about uncheck events: an uncheck event adds no token
C19_UncheckAddsNothing ==
    [][ (/\ last'.op = "change"
         /\ IsCheckbox(page, last'.arg)
         /\ ~sel'[Elements(page)[last'.arg].slot]) =>
            TokenSet(TokensOf(FiltersOf(page, urlFilters'), Target(page, last').name)) \subseteq
                TokenSet(TokensOf(CurrentState, Target(page, last').name)) ]_vars

---------------------------------------------------------------------------
(* C20 *)

\* C20: when the popstate listener has run, url is the live address and
\* urlFilters and the FilterState are those of its query, whatever they
\* were before; a commit that follows at once pushes that query again, with
\* nothing of the changes that were not committed before the navigation.
C20_NavigationOverwritesSnapshot ==
    [][ /\ last'.op = "popstate" =>
              /\ url' = location'
              /\ urlFilters' = ParseQuery(location'.query)
              /\ FiltersOf(page, urlFilters') = StateOf(page, location'.query)
        /\ (last.op = "popstate" /\ last'.op = "commit") =>
              ParseQuery(location'.query) = ParseQuery(location.query) ]_vars

\* the popstate listener has run on the first entry of the history, whose
\* query is not that of the entry the user came from
C20_Witness ==
    /\ last.op = "popstate"
    /\ last.arg = -1
    /\ hidx = 1
    /\ urlFilters # ParseQuery(history[2].query)
    /\ urlFilters = ParseQuery(location.query)
    /\ urlFilters # <<>>

=============================================================================
